---- MODULE Spec2Model ----
(***************************************************************************)
(* Model of src/main.py: the class Estatistica (descriptive statistics of  *)
(* a sample held in the attribute dados) and the Streamlit handler enviar. *)
(*                                                                         *)
(* Numbers.  A Python/NumPy double is modelled as a record                 *)
(*   [k |-> "fin", n |-> num, d |-> den]  an exact rational num/den,       *)
(*   [k |-> "nan"], [k |-> "inf"] (n = sign), and None as [k |-> "none"].  *)
(* Samples hold integers, so every statistic is an exact rational except   *)
(* the square root of np.std, which is taken to the digits round() keeps.  *)
(* IEEE division by zero yields nan or inf: NumPy scalars do not raise.    *)
(* Left out: the rounding of a double sum (np.mean of [0.1, 0.1, 0.1] is   *)
(* not 0.1), the sign of a zero, and nan or inf among the sample's values. *)
(***************************************************************************)
EXTENDS Integers, Sequences, FiniteSets, TLC

VARIABLES dados, heap, ret, tela

vars == <<dados, heap, ret, tela>>

(***************************************************************************)
(* Bounds of the model.                                                    *)
(***************************************************************************)
\* longest sample an object is constructed with in SpecStats
MaxLen == 4
\* longest list an object holds in Spec (construction and in-place growth)
MaxGrow == 2
\* longest raw text submitted to enviar in SpecEnviar
MaxRaw == 5
\* most figures drawn on one page by direct calls of plotar
MaxPlots == 1

\* values of the samples of SpecStats
Vals == {0, 1, 8, 17}
\* values of the samples of Spec
LifeVals == {1, 2}
\* characters of the raw text of SpecEnviar
Chars == {"1", "2", ",", " "}
\* the objects of class Estatistica
Objs == {"a", "b"}
\* the list object of the default argument of __init__ (created once, at def time)
DefaultList == "default"

RECURSIVE SeqsUpTo(_, _)
SeqsUpTo(S, n) ==
    IF n = 0 THEN {<<>>}
    ELSE LET shorter == SeqsUpTo(S, n - 1)
         IN  shorter \cup {Append(s, x) : s \in {t \in shorter : Len(t) = n - 1}, x \in S}

(***************************************************************************)
(* Doubles.                                                                *)
(***************************************************************************)
RECURSIVE Gcd(_, _)
Gcd(a, b) == IF b = 0 THEN a ELSE Gcd(b, a % b)

Abs(x) == IF x < 0 THEN -x ELSE x

NaN == [k |-> "nan", n |-> 0, d |-> 1]
None == [k |-> "none", n |-> 0, d |-> 1]
Inf(sgn) == [k |-> "inf", n |-> sgn, d |-> 1]

\* the rational a/b (b > 0) in lowest terms
Fin(a, b) ==
    LET g == Gcd(Abs(a), b)
    IN  [k |-> "fin", n |-> a \div g, d |-> b \div g]

IsFin(x) == x.k = "fin"

\* x - y
FSub(x, y) ==
    IF IsFin(x) /\ IsFin(y) THEN Fin(x.n * y.d - y.n * x.d, x.d * y.d) ELSE NaN

\* c * x for an integer c
FScale(c, x) == IF IsFin(x) THEN Fin(c * x.n, x.d) ELSE NaN

\* x / y as IEEE doubles divide: no exception, 0/0 = nan, x/0 = +-inf
FDiv(x, y) ==
    IF ~(IsFin(x) /\ IsFin(y)) THEN NaN
    ELSE IF y.n = 0
         THEN IF x.n = 0 THEN NaN ELSE Inf(IF x.n > 0 THEN 1 ELSE -1)
         ELSE IF y.n > 0 THEN Fin(x.n * y.d, x.d * y.n)
              ELSE Fin(-(x.n * y.d), x.d * (-y.n))

\* x == y, x > y, x < y of Python floats: every comparison with nan is False
FEq(x, y) ==
    \/ IsFin(x) /\ IsFin(y) /\ x.n * y.d = y.n * x.d
    \/ x.k = "inf" /\ y.k = "inf" /\ x.n = y.n
FGt(x, y) ==
    \/ IsFin(x) /\ IsFin(y) /\ x.n * y.d > y.n * x.d
    \/ x.k = "inf" /\ x.n = 1 /\ (IsFin(y) \/ (y.k = "inf" /\ y.n = -1))
    \/ IsFin(x) /\ y.k = "inf" /\ y.n = -1
FLt(x, y) == FGt(y, x)

\* abs(x)
FAbs(x) ==
    IF IsFin(x) THEN Fin(Abs(x.n), x.d)
    ELSE IF x.k = "inf" THEN Inf(1) ELSE x

RECURSIVE Pow10(_)
Pow10(k) == IF k = 0 THEN 1 ELSE 10 * Pow10(k - 1)

\* long division: <<q, r>> with q = floor(num * 10^k / den), r the last remainder
RECURSIVE LongDiv(_, _, _, _)
LongDiv(q, r, den, k) ==
    IF k = 0 THEN <<q, r>>
    ELSE LongDiv(10 * q + ((10 * r) \div den), (10 * r) % den, den, k - 1)

\* the integer nearest to num * 10^k / den (num >= 0, den > 0), ties to even
RoundScaled(num, den, k) ==
    LET qr == LongDiv(num \div den, num % den, den, k)
        q == qr[1]
        r == qr[2]
    IN  IF 2 * r < den THEN q
        ELSE IF 2 * r > den THEN q + 1
        ELSE IF q % 2 = 0 THEN q ELSE q + 1

\* round(x, k) of a double: k decimals, ties to even; nan and inf stay
FRound(x, k) ==
    IF ~IsFin(x) THEN x
    ELSE LET m == RoundScaled(Abs(x.n), x.d, k)
         IN  Fin(IF x.n < 0 THEN -m ELSE m, Pow10(k))

\* floor(sqrt(X)) for an integer X >= 0
RECURSIVE ISqrt(_)
ISqrt(X) ==
    IF X < 2 THEN X
    ELSE LET s == 2 * ISqrt(X \div 4)
         IN  IF (s + 1) * (s + 1) <= X THEN s + 1 ELSE s

\* the next decimal digit of a square root: the largest dg with (20 r + dg) dg <= rem
RECURSIVE SqrtDigit(_, _, _)
SqrtDigit(r, rem, dg) ==
    IF (20 * r + dg) * dg <= rem THEN dg ELSE SqrtDigit(r, rem, dg - 1)

\* floor(sqrt(X) * 10^k), given r = floor of the root so far and its remainder
RECURSIVE SqrtDigits(_, _, _)
SqrtDigits(r, rem, k) ==
    IF k = 0 THEN r
    ELSE LET dg == SqrtDigit(r, 100 * rem, 9)
         IN  SqrtDigits(10 * r + dg, 100 * rem - (20 * r + dg) * dg, k - 1)

(***************************************************************************)
(* Helpers on samples.                                                     *)
(***************************************************************************)
RECURSIVE Sum(_)
Sum(s) == IF s = <<>> THEN 0 ELSE Head(s) + Sum(Tail(s))

RECURSIVE Insert(_, _)
Insert(x, s) ==
    IF s = <<>> THEN <<x>>
    ELSE IF x <= Head(s) THEN <<x>> \o s
    ELSE <<Head(s)>> \o Insert(x, Tail(s))

\* the sample in ascending order
RECURSIVE Sorted(_)
Sorted(s) == IF s = <<>> THEN <<>> ELSE Insert(Head(s), Sorted(Tail(s)))

\* a sorted sequence without its repetitions
RECURSIVE Dedup(_)
Dedup(s) ==
    IF Len(s) < 2 THEN s
    ELSE IF s[1] = s[2] THEN Dedup(Tail(s))
    ELSE <<s[1]>> \o Dedup(Tail(s))

Count(s, v) == Cardinality({i \in DOMAIN s : s[i] = v})

Range(s) == {s[i] : i \in DOMAIN s}

\* n * (x - mean) for every x: the deviations from the mean, kept integral
Deviations(array) ==
    [i \in DOMAIN array |-> Len(array) * array[i] - Sum(array)]

RECURSIVE GcdAll(_)
GcdAll(s) == IF s = <<>> THEN 0 ELSE Gcd(Abs(Head(s)), GcdAll(Tail(s)))

RECURSIVE SumPow(_, _)
SumPow(s, p) ==
    IF s = <<>> THEN 0
    ELSE (IF p = 2 THEN Head(s) * Head(s)
          ELSE Head(s) * Head(s) * Head(s) * Head(s)) + SumPow(Tail(s), p)

(***************************************************************************)
(* The statistics of class Estatistica.                                    *)
(***************************************************************************)
\* media: np.mean(array); nan for an empty array
Media(array) ==
    IF array = <<>> THEN NaN ELSE Fin(Sum(array), Len(array))

\* mediana: np.median(array): the middle of the sorted array, or the mean of the
\* two middle values when the length is even; nan for an empty array
Mediana(array) ==
    LET s == Sorted(array)
        n == Len(array)
    IN  IF n = 0 THEN NaN
        ELSE IF n % 2 = 1 THEN Fin(s[(n + 1) \div 2], 1)
        ELSE Fin(s[n \div 2] + s[n \div 2 + 1], 2)

StMode_FirstReached(array) ==
    LET maxc == CHOOSE c \in 1..Len(array) :
                    /\ \E v \in Range(array) : Count(array, v) = c
                    /\ \A v \in Range(array) : Count(array, v) <= c
        first == CHOOSE i \in DOMAIN array :
                    /\ Count(SubSeq(array, 1, i), array[i]) = maxc
                    /\ \A j \in 1..(i - 1) : Count(SubSeq(array, 1, j), array[j]) < maxc
    IN  IF array = <<>> THEN <<NaN, 0>> ELSE <<Fin(array[first], 1), maxc>>

\* st.mode(array, keepdims=False): the unique values in ascending order with their
\* counts, and the first of them holding the largest count (so the smallest value)
StMode(array) ==
    LET vals == Dedup(Sorted(array))
        cnts == [i \in DOMAIN vals |-> Count(array, vals[i])]
        argmax == CHOOSE i \in DOMAIN vals :
                      /\ \A j \in DOMAIN vals : cnts[j] <= cnts[i]
                      /\ \A j \in 1..(i - 1) : cnts[j] < cnts[i]
    IN  IF array = <<>> THEN <<NaN, 0>> ELSE <<Fin(vals[argmax], 1), cnts[argmax]>>

Moda_NoCountTest(array) ==
    LET moda == StMode(array) IN IF moda[2] >= 1 THEN moda[1] ELSE None

\* moda: the mode when it occurs more than once, else None
Moda(array) ==
    LET moda == StMode(array) IN IF moda[2] > 1 THEN moda[1] ELSE None

DesvioPadrao_NotCentred(array) ==
    LET n == Len(array)
        X == SumPow(array, 2)
        root == ISqrt(4 * X * n)
    IN  IF n = 0 THEN NaN
        ELSE Fin((SqrtDigits(root, 4 * X * n - root * root, 4) + n) \div (2 * n), Pow10(4))

\* desvio_padrao: round(np.std(array), 4), the population standard deviation
\* sqrt(sum((x - mean)^2) / n) = sqrt(V) / n with V = sum(dev^2) / n, to 4 decimals.
\* A tie of the rounding needs sqrt(V) rational, so V a perfect square: that case is
\* rounded exactly (ties to even); otherwise the nearest 4-decimal number is
\* floor((floor(2 * 10^4 * sqrt(V)) + n) / (2 n)).
DesvioPadrao(array) ==
    LET n == Len(array)
        V == SumPow(Deviations(array), 2) \div n
        root == ISqrt(V)
        root2 == ISqrt(4 * V)
    IN  IF n = 0 THEN NaN
        ELSE IF root * root = V THEN FRound(Fin(root, n), 4)
        ELSE Fin((SqrtDigits(root2, 4 * V - root2 * root2, 4) + n) \div (2 * n), Pow10(4))

\* coef_pearson: 3 * (mean - median) / standard deviation, a division of doubles
CoefPearson(array) ==
    FDiv(FScale(3, FSub(Media(array), Mediana(array))), DesvioPadrao(array))

\* what st.kurtosis returns for a constant array (second moment 0): nan, or 0 in
\* the SciPy releases that took the ratio to be 0 there
KurtosisOfConstant == {NaN, Fin(0, 1)}

\* curtose: round(st.kurtosis(array, fisher=False), 3), the fourth central moment
\* over the squared second one, m4 / m2^2 = n * sum(dev^4) / sum(dev^2)^2; the
\* deviations are divided by their common factor, which leaves the ratio as it is
Curtose(array, k0) ==
    LET n == Len(array)
        dev == Deviations(array)
        g == GcdAll(dev)
        unit == [i \in DOMAIN dev |-> dev[i] \div g]
        B2 == SumPow(unit, 2)
        B4 == SumPow(unit, 4)
    IN  IF n = 0 THEN NaN
        ELSE IF g = 0 THEN FRound(k0, 3)
        ELSE FRound(Fin(n * B4, B2 * B2), 3)

(***************************************************************************)
(* Text: str() of a rounded double and the f-strings of resumir.  A text   *)
(* is a sequence of pieces; the digits of a number are pieces of one       *)
(* character each.                                                         *)
(***************************************************************************)
DigitChar(dg) == <<"0", "1", "2", "3", "4", "5", "6", "7", "8", "9">>[dg + 1]

\* the decimal digits of an integer m >= 0
RECURSIVE IntDigits(_)
IntDigits(m) ==
    IF m < 10 THEN <<DigitChar(m)>> ELSE Append(IntDigits(m \div 10), DigitChar(m % 10))

\* the digits of the fraction f / 10^k, without trailing zeros but at least one
RECURSIVE FracDigits(_, _)
FracDigits(f, k) ==
    IF k = 1 THEN <<DigitChar(f)>>
    ELSE IF f % 10 = 0 THEN FracDigits(f \div 10, k - 1)
    ELSE Append(FracDigits(f \div 10, k - 1), DigitChar(f % 10))

\* f'{x}' for a double x rounded to 3 decimals: '0.305', '-2.121', '1.0', 'nan'
FmtFloat(x) ==
    IF x.k = "nan" THEN <<"nan">>
    ELSE IF x.k = "inf" THEN (IF x.n > 0 THEN <<"inf">> ELSE <<"-inf">>)
    ELSE LET m == Abs(x.n) * (1000 \div x.d)
         IN  (IF x.n < 0 THEN <<"-">> ELSE <<>>)
             \o IntDigits(m \div 1000) \o <<".">> \o FracDigits(m % 1000, 3)

\* a field of the summary: a double, or a text that starts with a double's digits
Num(x) == [t |-> "float", num |-> x, txt |-> <<>>]
Str(s) == [t |-> "str", num |-> None, txt |-> s]

\* "MODERADA" if 0.15 < abs(pearson_value) < 1 else "FORTE"
Intensidade(pearson_value) ==
    IF FLt(Fin(15, 100), FAbs(pearson_value)) /\ FLt(FAbs(pearson_value), Fin(1, 1))
    THEN "MODERADA" ELSE "FORTE"

\* lines 101-108: the text that replaces pearson_value when analise is true
AnalisePearson(pearson_value) ==
    IF FEq(pearson_value, Fin(0, 1))
    THEN Str(FmtFloat(pearson_value) \o <<" - Simétrica">>)
    ELSE IF FGt(pearson_value, Fin(0, 1))
    THEN Str(FmtFloat(pearson_value)
             \o <<" - Assimétrica à direita ou positiva - ", Intensidade(pearson_value)>>)
    ELSE Str(FmtFloat(pearson_value)
             \o <<" - Assimétrica à esquerda ou negativa - ", Intensidade(pearson_value)>>)

\* lines 111-116: the text that replaces curtose_value when analise is true
AnaliseCurtose(curtose_value) ==
    IF FEq(curtose_value, Fin(263, 1000))
    THEN Str(FmtFloat(curtose_value) \o <<" - Mesocúrtica">>)
    ELSE IF FGt(curtose_value, Fin(263, 1000))
    THEN Str(FmtFloat(curtose_value) \o <<" - Platicúrtica">>)
    ELSE Str(FmtFloat(curtose_value) \o <<" - Leptocúrtica">>)

(***************************************************************************)
(* resumir and plotar as functions of the list self.dados refers to.  An   *)
(* outcome is the value returned or the exception raised, with the         *)
(* statistics methods called on the way (calls) and what was drawn.        *)
(***************************************************************************)
Raised(exc) == [status |-> exc, calls |-> <<>>, emitted |-> <<>>]

Resumo(array, pearson_value, curtose_value) ==
    [media |-> Media(array),
     mediana |-> Mediana(array),
     moda |-> Moda(array),
     desvio_padrao |-> DesvioPadrao(array),
     pearson |-> pearson_value,
     curtose |-> curtose_value]

ResumirCalls == <<"coef_pearson", "curtose", "media", "mediana", "moda", "desvio_padrao">>

ResumirOutcome_GuardLast(array, analise, k0) ==
    LET pearson_value == FRound(CoefPearson(array), 3)
        curtose_value == Curtose(array, k0)
    IN  IF array # <<>>
        THEN [status |-> "ok", calls |-> ResumirCalls, emitted |-> <<>>,
              val |-> Resumo(array, Num(pearson_value), Num(curtose_value))]
        ELSE [status |-> "NameError", calls |-> SubSeq(ResumirCalls, 1, 2), emitted |-> <<>>]

ResumirOutcome_TextOfUnrounded(array, analise, k0) ==
    LET pearson_value == FRound(CoefPearson(array), 3)
        curtose_value == Curtose(array, k0)
    IN  IF array # <<>>
        THEN [status |-> "ok", calls |-> ResumirCalls, emitted |-> <<>>,
              val |-> Resumo(array,
                             IF analise THEN AnalisePearson(FRound(CoefPearson(array), 2))
                             ELSE Num(pearson_value),
                             IF analise THEN AnaliseCurtose(curtose_value)
                             ELSE Num(curtose_value))]
        ELSE Raised("NameError")

\* resumir(analise): lines 94-127
ResumirOutcome(array, analise, k0) ==
    LET pearson_value == FRound(CoefPearson(array), 3)
        curtose_value == Curtose(array, k0)
    IN  IF array # <<>>
        THEN [status |-> "ok", calls |-> ResumirCalls, emitted |-> <<>>,
              val |-> Resumo(array,
                             IF analise THEN AnalisePearson(pearson_value)
                             ELSE Num(pearson_value),
                             IF analise THEN AnaliseCurtose(curtose_value)
                             ELSE Num(curtose_value))]
        ELSE Raised("NameError")

\* an element of the Streamlit page: a header, the figure, or a written line
Element(kind, label, value) == [kind |-> kind, label |-> label, value |-> value]

\* plotar(streamlit): lines 139-166; the figure of three plots goes to the page
\* (stream.pyplot) or to a window (plt.show)
PlotarOutcome(array, streamlit) ==
    IF array # <<>>
    THEN [status |-> "ok", calls |-> <<>>,
          emitted |-> IF streamlit
                      THEN <<Element("pyplot", "DISTRIBUIÇÃO DOS DADOS", Num(None))>>
                      ELSE <<>>]
    ELSE Raised("NameError")

(***************************************************************************)
(* enviar: the raw text is split at the commas and every piece goes        *)
(* through float(), which accepts blanks around a number and nothing else  *)
(* here.  The result of data.strip().replace(' ', '') on line 169 is       *)
(* dropped, so the text that is split is the text as typed.                *)
(***************************************************************************)
\* data.split(','), cur being the piece read so far
RECURSIVE Split(_, _)
Split(data, cur) ==
    IF data = <<>> THEN <<cur>>
    ELSE IF Head(data) = "," THEN <<cur>> \o Split(Tail(data), <<>>)
    ELSE Split(Tail(data), Append(cur, Head(data)))

RECURSIVE LStrip(_)
LStrip(z) == IF z # <<>> /\ Head(z) = " " THEN LStrip(Tail(z)) ELSE z

RECURSIVE RStrip(_)
RStrip(z) ==
    IF z # <<>> /\ z[Len(z)] = " " THEN RStrip(SubSeq(z, 1, Len(z) - 1)) ELSE z

IsDigit(c) == c \in {DigitChar(dg) : dg \in 0..9}

RECURSIVE DigitsValue(_)
DigitsValue(z) ==
    IF z = <<>> THEN 0
    ELSE 10 * DigitsValue(SubSeq(z, 1, Len(z) - 1))
         + (CHOOSE dg \in 0..9 : DigitChar(dg) = z[Len(z)])

\* float(z): the number, or ValueError for an empty piece or a blank inside it
ParseFloat(z) ==
    LET body == RStrip(LStrip(z))
    IN  IF body # <<>> /\ \A i \in DOMAIN body : IsDigit(body[i])
        THEN [ok |-> TRUE, val |-> DigitsValue(body)]
        ELSE [ok |-> FALSE, val |-> 0]

\* lines 177-182: the six lines written from the summary a
Linhas(a) ==
    <<Element("write", "*Média:* ", Num(a.media)),
      Element("write", "*Mediana:* ", Num(a.mediana)),
      Element("write", "*Moda:* ", Num(a.moda)),
      Element("write", "*Desvio padrão:* ", Num(a.desvio_padrao)),
      Element("write", "*Pearson:* ", a.pearson),
      Element("write", "*Curtose:* ", a.curtose)>>

Header == <<Element("header", "Análise", Num(None))>>

EnviarOutcome_HeaderFirst(data, k0) ==
    LET pieces == Split(data, <<>>)
        parsed == [i \in DOMAIN pieces |-> ParseFloat(pieces[i])]
        lista == [i \in DOMAIN pieces |-> parsed[i].val]
        plot == PlotarOutcome(lista, TRUE)
        a == ResumirOutcome(lista, TRUE, k0)
    IN  IF \E i \in DOMAIN parsed : ~parsed[i].ok
        THEN [status |-> "ValueError", emitted |-> Header]
        ELSE IF plot.status # "ok"
        THEN [status |-> plot.status, emitted |-> Header]
        ELSE IF a.status # "ok"
        THEN [status |-> a.status, emitted |-> Header \o plot.emitted]
        ELSE [status |-> "ok", emitted |-> Header \o plot.emitted \o Linhas(a.val)]

\* enviar(data): lines 168-182; emitted is what reached the page when it ended
EnviarOutcome(data, k0) ==
    LET pieces == Split(data, <<>>)
        parsed == [i \in DOMAIN pieces |-> ParseFloat(pieces[i])]
        lista == [i \in DOMAIN pieces |-> parsed[i].val]
        plot == PlotarOutcome(lista, TRUE)
        a == ResumirOutcome(lista, TRUE, k0)
    IN  IF \E i \in DOMAIN parsed : ~parsed[i].ok
        THEN [status |-> "ValueError", emitted |-> <<>>]
        ELSE IF plot.status # "ok"
        THEN [status |-> plot.status, emitted |-> Header]
        ELSE IF a.status # "ok"
        THEN [status |-> a.status, emitted |-> Header \o plot.emitted]
        ELSE [status |-> "ok", emitted |-> Header \o plot.emitted \o Linhas(a.val)]

(***************************************************************************)
(* The state.                                                              *)
(*   dados[o]  the list object self.dados of object o refers to, "unset"   *)
(*             while o is not constructed                                  *)
(*   heap[l]   the content of list object l                                *)
(*   ret       the last call and its outcome                               *)
(*   tela      the elements on the Streamlit page                          *)
(***************************************************************************)
Lists == Objs \cup {DefaultList}

NoCall == [op |-> "none"]

Init ==
    /\ dados = [o \in Objs |-> "unset"]
    /\ heap = [l \in Lists |-> <<>>]
    /\ ret = NoCall
    /\ tela = <<>>

\* the list self.dados of o refers to
DadosOf(o) == heap[dados[o]]

\* a call that returns nothing
Call(op, o) == [op |-> op, obj |-> o]

\* Estatistica(dados=s) bound to the name o: the object holds the caller's list
Construct(o, s) ==
    /\ dados' = [dados EXCEPT ![o] = o]
    /\ heap' = [heap EXCEPT ![o] = s]
    /\ ret' = Call("__init__", o)
    /\ UNCHANGED tela

\* Estatistica() bound to the name o: the object holds the list object of the
\* default argument (a list o held before is garbage)
ConstructDefault(o) ==
    /\ dados' = [dados EXCEPT ![o] = DefaultList]
    /\ heap' = [heap EXCEPT ![o] = <<>>]
    /\ ret' = Call("__init__", o)
    /\ UNCHANGED tela

\* o.dados.append(v): the sample of o changed in place
AppendDados(o, v) ==
    /\ dados[o] # "unset"
    /\ Len(DadosOf(o)) < MaxGrow
    /\ heap' = [heap EXCEPT ![dados[o]] = Append(@, v)]
    /\ ret' = Call("append", o)
    /\ UNCHANGED <<dados, tela>>

\* o.resumir(analise)
Resumir(o, analise, k0) ==
    /\ dados[o] # "unset"
    /\ ret' = [op |-> "resumir", obj |-> o, arg |-> analise,
               out |-> ResumirOutcome(DadosOf(o), analise, k0)]
    /\ UNCHANGED <<dados, heap, tela>>

\* o.plotar(streamlit)
Plotar(o, streamlit) ==
    /\ dados[o] # "unset"
    /\ Len(tela) < MaxPlots
    /\ LET out == PlotarOutcome(DadosOf(o), streamlit)
       IN  /\ ret' = [op |-> "plotar", obj |-> o, arg |-> streamlit, out |-> out]
           /\ tela' = tela \o out.emitted
    /\ UNCHANGED <<dados, heap>>

\* the outcome of a statistics method that returned x
Returned(x) == [status |-> "ok", calls |-> <<>>, emitted |-> <<>>, val |-> x]

\* o.media(o.dados), and so on for the other statistics
CallMedia(o) ==
    /\ dados[o] # "unset"
    /\ ret' = [op |-> "media", obj |-> o, arg |-> DadosOf(o),
               out |-> Returned(Media(DadosOf(o)))]
    /\ UNCHANGED <<dados, heap, tela>>

CallMediana(o) ==
    /\ dados[o] # "unset"
    /\ ret' = [op |-> "mediana", obj |-> o, arg |-> DadosOf(o),
               out |-> Returned(Mediana(DadosOf(o)))]
    /\ UNCHANGED <<dados, heap, tela>>

CallModa(o) ==
    /\ dados[o] # "unset"
    /\ ret' = [op |-> "moda", obj |-> o, arg |-> DadosOf(o),
               out |-> Returned(Moda(DadosOf(o)))]
    /\ UNCHANGED <<dados, heap, tela>>

CallDesvioPadrao(o) ==
    /\ dados[o] # "unset"
    /\ ret' = [op |-> "desvio_padrao", obj |-> o, arg |-> DadosOf(o),
               out |-> Returned(DesvioPadrao(DadosOf(o)))]
    /\ UNCHANGED <<dados, heap, tela>>

CallCoefPearson(o) ==
    /\ dados[o] # "unset"
    /\ ret' = [op |-> "coef_pearson", obj |-> o, arg |-> DadosOf(o),
               out |-> Returned(CoefPearson(DadosOf(o)))]
    /\ UNCHANGED <<dados, heap, tela>>

CallCurtose(o, k0) ==
    /\ dados[o] # "unset"
    /\ ret' = [op |-> "curtose", obj |-> o, arg |-> DadosOf(o),
               out |-> Returned(Curtose(DadosOf(o), k0))]
    /\ UNCHANGED <<dados, heap, tela>>

\* the script runs with the button pressed (lines 194-195): enviar(data=nums)
Enviar(data, k0) ==
    /\ ret = NoCall
    /\ LET out == EnviarOutcome(data, k0)
       IN  /\ ret' = [op |-> "enviar", obj |-> "obj", arg |-> data, out |-> out]
           /\ tela' = tela \o out.emitted
    /\ UNCHANGED <<dados, heap>>

\* the script runs again from the top (lines 185-192): the page starts empty
Rerun ==
    /\ ret # NoCall
    /\ ret' = NoCall
    /\ tela' = <<>>
    /\ UNCHANGED <<dados, heap>>

(***************************************************************************)
(* Spec: objects are constructed, their lists grow in place, and resumir   *)
(* and plotar (to a window, its default) are called on them.               *)
(***************************************************************************)
Next ==
    \/ \E o \in Objs, s \in SeqsUpTo(LifeVals, MaxGrow) : Construct(o, s)
    \/ \E o \in Objs : ConstructDefault(o)
    \/ \E o \in Objs, v \in LifeVals : AppendDados(o, v)
    \/ \E o \in Objs, analise \in BOOLEAN, k0 \in KurtosisOfConstant : Resumir(o, analise, k0)
    \/ \E o \in Objs : Plotar(o, FALSE)

Spec == Init /\ [][Next]_vars

(***************************************************************************)
(* SpecStats: one object constructed with any sample over Vals, and every  *)
(* method of the class called on it.                                       *)
(***************************************************************************)
InitStats ==
    /\ dados = [o \in Objs |-> IF o = "a" THEN "a" ELSE "unset"]
    /\ \E s \in SeqsUpTo(Vals, MaxLen) : heap = [l \in Lists |-> IF l = "a" THEN s ELSE <<>>]
    /\ ret = NoCall
    /\ tela = <<>>

NextStats ==
    \/ \E o \in Objs, analise \in BOOLEAN, k0 \in KurtosisOfConstant : Resumir(o, analise, k0)
    \/ \E o \in Objs, streamlit \in BOOLEAN : Plotar(o, streamlit)
    \/ \E o \in Objs : CallMedia(o)
    \/ \E o \in Objs : CallMediana(o)
    \/ \E o \in Objs : CallModa(o)
    \/ \E o \in Objs : CallDesvioPadrao(o)
    \/ \E o \in Objs : CallCoefPearson(o)
    \/ \E o \in Objs, k0 \in KurtosisOfConstant : CallCurtose(o, k0)

SpecStats == InitStats /\ [][NextStats]_vars

(***************************************************************************)
(* SpecEnviar: the page is submitted with any raw text over Chars.         *)
(***************************************************************************)
NextEnviar ==
    \/ \E data \in SeqsUpTo(Chars, MaxRaw), k0 \in KurtosisOfConstant : Enviar(data, k0)
    \/ Rerun

SpecEnviar == Init /\ [][NextEnviar]_vars

(***************************************************************************)
(* Properties.                                                             *)
(***************************************************************************)
\* every value of the sample is the same one
Constant(s) == s # <<>> /\ \A i \in DOMAIN s : s[i] = s[1]

\* the largest number of occurrences of a value of a non-empty sample
MaxFreq(s) ==
    CHOOSE c \in 1..Len(s) :
        /\ \E v \in Range(s) : Count(s, v) = c
        /\ \A v \in Range(s) : Count(s, v) <= c

\* the values of the sample that occur MaxFreq times
Modes(s) == {v \in Range(s) : Count(s, v) = MaxFreq(s)}

\* the sample the last call of resumir or plotar read: a change of a list is a call
\* too, so the list is as it was when ret was set
Sample == DadosOf(ret.obj)

\* C1: resumir (either value of analise) and plotar on an empty sample raise the
\* NameError of the missing sample, and no statistics method was called before it.
C1_EmptySampleFails ==
    (ret.op \in {"resumir", "plotar"} /\ Sample = <<>>)
        => /\ ret.out.status = "NameError"
           /\ ret.out.calls = <<>>
           /\ ret.out.emitted = <<>>

C1_Witness ==
    /\ ret.op = "resumir"
    /\ ret.arg = FALSE
    /\ Sample = <<>>
    /\ ret.out.status = "NameError"

\* C2 (as claimed): on a sample of identical values coef_pearson ends in a
\* division-by-zero error instead of returning a value, and so does resumir.
C2_DegenerateRaises ==
    /\ (ret.op = "coef_pearson" /\ Constant(ret.arg))
           => ret.out.status = "ZeroDivisionError"
    /\ (ret.op = "resumir" /\ Constant(Sample))
           => ret.out.status = "ZeroDivisionError"

\* C3: on a non-empty sample moda returns None exactly when no value occurs more
\* than once, and otherwise a value of the sample with the largest count.
C3_ModaAbsentIffNoRepeat ==
    (ret.op = "moda" /\ ret.arg # <<>>)
        => LET m == ret.out.val
           IN  /\ (m = None) <=> (MaxFreq(ret.arg) = 1)
               /\ (m # None) => /\ IsFin(m)
                                /\ m.d = 1
                                /\ m.n \in Modes(ret.arg)

\* a mode that is neither the first element nor the minimum of the sample
C3_Witness ==
    /\ ret.op = "moda"
    /\ ret.arg # <<>>
    /\ ret.out.val # None
    /\ ret.out.val.n # ret.arg[1]
    /\ \E v \in Range(ret.arg) : v < ret.out.val.n

\* the piece L is part of the text of a field
Has(field, L) == field.t = "str" /\ \E i \in DOMAIN field.txt : field.txt[i] = L

\* C4 (as claimed): with analise true the label of pearson follows the rounded
\* value v: Simetrica iff v = 0, direita/positiva iff v > 0, esquerda/negativa iff
\* v < 0, and for the two skewed labels MODERADA iff 0.15 < |v| < 1, else FORTE.
C4_PearsonLabel ==
    (ret.op = "resumir" /\ ret.arg = TRUE /\ ret.out.status = "ok")
        => LET v == FRound(CoefPearson(Sample), 3)
               f == ret.out.val.pearson
               moderate == FGt(FAbs(v), Fin(15, 100)) /\ FLt(FAbs(v), Fin(1, 1))
           IN  /\ Has(f, " - Simétrica") <=> FEq(v, Fin(0, 1))
               /\ Has(f, " - Assimétrica à direita ou positiva - ") <=> FGt(v, Fin(0, 1))
               /\ Has(f, " - Assimétrica à esquerda ou negativa - ") <=> FLt(v, Fin(0, 1))
               /\ ~Has(f, " - Simétrica")
                      => /\ Has(f, "MODERADA") <=> moderate
                         /\ Has(f, "FORTE") <=> ~moderate

\* C5 (as claimed): with analise true the label of curtose follows the rounded
\* value v: Mesocurtica iff v = 0.263, Platicurtica iff v > 0.263, Leptocurtica
\* iff v < 0.263, exactly one of the three.
C5_CurtoseLabel ==
    (ret.op = "resumir" /\ ret.arg = TRUE /\ ret.out.status = "ok")
        => \A k0 \in KurtosisOfConstant :
             LET v == Curtose(Sample, k0)
                 f == ret.out.val.curtose
             IN  (SubSeq(f.txt, 1, Len(FmtFloat(v))) = FmtFloat(v))
                     => /\ Has(f, " - Mesocúrtica") <=> FEq(v, Fin(263, 1000))
                        /\ Has(f, " - Platicúrtica") <=> FGt(v, Fin(263, 1000))
                        /\ Has(f, " - Leptocúrtica") <=> FLt(v, Fin(263, 1000))
                        /\ Cardinality({L \in {" - Mesocúrtica", " - Platicúrtica",
                                               " - Leptocúrtica"} : Has(f, L)}) = 1

\* the labels a text can carry after the number
Labels ==
    {" - Simétrica", " - Assimétrica à direita ou positiva - ",
     " - Assimétrica à esquerda ou negativa - ",
     " - Mesocúrtica", " - Platicúrtica", " - Leptocúrtica"}

\* x is a number of at most 3 decimals
Rounded3(x) == IsFin(x) /\ 1000 % x.d = 0

\* the text f is the digits of the number x, then a label
TextOf(f, x) ==
    LET digits == FmtFloat(x)
    IN  /\ f.t = "str"
        /\ Len(f.txt) > Len(digits)
        /\ SubSeq(f.txt, 1, Len(digits)) = digits
        /\ f.txt[Len(digits) + 1] \in Labels

\* C6: on a sample that is not empty and not constant, resumir(False) returns
\* pearson and curtose as numbers of 3 decimals (pearson within 0.0005 of the
\* unrounded coefficient), resumir(True) returns each as the text of that same
\* number followed by a label, and the other four fields do not depend on analise.
C6_AnaliseOnlyAnnotates ==
    (ret.op = "resumir" /\ Sample # <<>> /\ ~Constant(Sample))
        => LET plain == ResumirOutcome(Sample, FALSE, NaN).val
               other == ResumirOutcome(Sample, ~ret.arg, NaN).val
               got == ret.out.val
               exact == CoefPearson(Sample)
               err == FAbs(FSub(plain.pearson.num, exact))
           IN  /\ ret.out.status = "ok"
               /\ plain.pearson.t = "float" /\ Rounded3(plain.pearson.num)
               /\ plain.curtose.t = "float" /\ Rounded3(plain.curtose.num)
               /\ ~FGt(err, Fin(1, 2000))
               /\ ret.arg = FALSE => got = plain
               /\ ret.arg = TRUE => /\ TextOf(got.pearson, plain.pearson.num)
                                    /\ TextOf(got.curtose, plain.curtose.num)
               /\ got.media = other.media
               /\ got.mediana = other.mediana
               /\ got.moda = other.moda
               /\ got.desvio_padrao = other.desvio_padrao

C6_Witness ==
    /\ ret.op = "resumir"
    /\ ret.arg = TRUE
    /\ Sample # <<>>
    /\ ~Constant(Sample)
    /\ ret.out.val.pearson.t = "str"
    /\ Has(ret.out.val.pearson, "MODERADA")

\* C7 (as claimed): for a sample of identical values c of any length >= 1, the
\* mean, the median and the mode are c and the standard deviation is 0.
C7_ConstantSample_Original ==
    (ret.op = "resumir" /\ Constant(Sample))
        => LET c == Fin(Sample[1], 1)
               got == ret.out.val
           IN  /\ got.media = c
               /\ got.mediana = c
               /\ got.moda = c
               /\ got.desvio_padrao = Fin(0, 1)

\* C7 (amended): for a sample of identical values c, the mean and the median are c
\* and the standard deviation is 0; the mode is c when the sample has at least two
\* values and None when it has one.
C7_ConstantSample ==
    (ret.op = "resumir" /\ Constant(Sample))
        => LET c == Fin(Sample[1], 1)
               got == ret.out.val
           IN  /\ ret.out.status = "ok"
               /\ got.media = c
               /\ got.mediana = c
               /\ got.moda = IF Len(Sample) >= 2 THEN c ELSE None
               /\ got.desvio_padrao = Fin(0, 1)

C7_Witness ==
    /\ ret.op = "resumir"
    /\ Constant(Sample)
    /\ Len(Sample) = 1
    /\ Sample[1] # 0
    /\ ret.out.val.moda = None
    /\ ret.out.val.desvio_padrao = Fin(0, 1)

\* several values share the largest count, which is more than 1
Tied(s) == s # <<>> /\ MaxFreq(s) > 1 /\ Cardinality(Modes(s)) > 1

\* the value whose count is the first to reach MaxFreq when s is read in order
FirstToReach(s) ==
    LET i == CHOOSE i \in DOMAIN s :
                 /\ Count(SubSeq(s, 1, i), s[i]) = MaxFreq(s)
                 /\ \A j \in 1..(i - 1) : Count(SubSeq(s, 1, j), s[j]) < MaxFreq(s)
    IN  s[i]

\* the smallest of a non-empty set of integers
Least(S) == CHOOSE v \in S : \A w \in S : v <= w

\* C8 (as claimed): when several values share the largest count (> 1), moda
\* returns the one that reaches that count first in the order of the sample.
C8_ModaTie_Original ==
    (ret.op = "moda" /\ Tied(ret.arg))
        => ret.out.val = Fin(FirstToReach(ret.arg), 1)

\* C8 (amended): when several values share the largest count (> 1), moda returns
\* the smallest of them, whatever the order of the sample.
C8_ModaTie ==
    (ret.op = "moda" /\ Tied(ret.arg))
        => ret.out.val = Fin(Least(Modes(ret.arg)), 1)

C8_Witness ==
    /\ ret.op = "moda"
    /\ Tied(ret.arg)
    /\ ret.out.val = Fin(Least(Modes(ret.arg)), 1)
    /\ FirstToReach(ret.arg) # Least(Modes(ret.arg))

\* C9 (as claimed): no state is shared between objects: a change made to the
\* sample of one object leaves the sample every other object holds as it was.
C9_NoSharedState ==
    [][\A o \in Objs :
          (dados[o] # "unset" /\ ret'.op = "append" /\ ret'.obj # o)
              => (dados'[o] = dados[o] /\ heap'[dados'[o]] = heap[dados[o]])]_vars

\* the kinds and labels of the elements on the page, in order
Page == [i \in DOMAIN tela |-> <<tela[i].kind, tela[i].label>>]

FullPage ==
    <<<<"header", "Análise">>, <<"pyplot", "DISTRIBUIÇÃO DOS DADOS">>,
      <<"write", "*Média:* ">>, <<"write", "*Mediana:* ">>, <<"write", "*Moda:* ">>,
      <<"write", "*Desvio padrão:* ">>, <<"write", "*Pearson:* ">>,
      <<"write", "*Curtose:* ">>>>

\* C10: when enviar ends, either it succeeded and the page holds the header, the
\* figure and the six lines in order, or it raised and the page holds nothing.
C10_NoPartialOutput ==
    ret.op = "enviar"
        => \/ ret.out.status = "ok" /\ Page = FullPage
           \/ ret.out.status # "ok" /\ tela = <<>>

C10_Witness ==
    /\ ret.op = "enviar"
    /\ ret.out.status = "ValueError"
    /\ \E i \in DOMAIN ret.arg : ret.arg[i] = "1"
    /\ tela = <<>>

====
